---- MODULE Spec2Model ----
(***************************************************************************)
(* Tile maze with vertically patrolling obstacles: Level / MovingObstacle  *)
(* (Level.js) and the game loop (sketch.js).                               *)
(*                                                                         *)
(* Units.  Grid indices are the code's 0-based rows and columns.  Every    *)
(* pixel quantity is held in TENTHS of a pixel, so that the code's decimal *)
(* factors are exact integers: ts/2 = 5*ts, 0.8*ts = 8*ts, 0.6*ts = 6*ts   *)
(* and the default speed 1.8 = 18.  The model therefore computes in exact  *)
(* decimal arithmetic where the code computes in IEEE doubles.             *)
(***************************************************************************)
EXTENDS Integers, Sequences, FiniteSets, TLC

VARIABLES
    levelsData,   \* sketch.js: raw level entries (levels.json)
    levels,       \* sketch.js: array of Level objects
    li,           \* sketch.js: current level index (0-based)
    player,       \* sketch.js: Player instance: its cell [r, c] (Null before setup)
    canvas,       \* size of the drawing surface set by resizeCanvas
    hud,          \* whether the latest draw() reached drawHUD()
    rect,         \* argument of the latest checkObstacleCollision call
    hit,          \* result of the latest checkObstacleCollision call
    heap,         \* the row arrays behind the grids, and which grid holds which rows
    last          \* the latest operation executed

vars == <<levelsData, levels, li, player, canvas, hud, rect, hit, heap, last>>

----------------------------------------------------------------------------
(* Program constants *)

\* const TS = 32 (pixels per tile)
TS == 32

\* MovingObstacle constructor default speed = 1.8 pixels per tick, in tenths
speed == 18

\* tile codes; the string marker "M" is encoded as 4
Floor == 0
Wall == 1
Start == 2
Goal == 3
M == 4

Tiles == {Floor, Wall, Start, Goal, M}

\* JavaScript null / undefined
Null == [absent |-> TRUE]

\* n whole pixels, in tenths
Px(n) == 10 * n

----------------------------------------------------------------------------
(* Level.MovingObstacle *)

MovingObstacle(col, row, minRow, maxRow, ts) ==
    [col |-> col, row |-> row, minRow |-> minRow, maxRow |-> maxRow,
     ts |-> ts, speed |-> speed,
     y |-> Px(row * ts) + 5 * ts,
     x |-> Px(col * ts) + 5 * ts,
     dir |-> 1,
     w |-> 8 * ts,
     h |-> 8 * ts,
     minY |-> Px(minRow * ts) + 5 * ts,
     maxY |-> Px(maxRow * ts) + 5 * ts]

\* mutant: the upper bound is detected but the position is not clamped
update_noClamp(o) ==
    LET y1 == o.y + o.speed * o.dir
    IN  IF y1 >= o.maxY THEN [o EXCEPT !.y = y1, !.dir = -1]
        ELSE IF y1 <= o.minY THEN [o EXCEPT !.y = o.minY, !.dir = 1]
        ELSE [o EXCEPT !.y = y1]

\* mutant: the upper bound clamps the position but does not turn the obstacle
update_stickAtMax(o) ==
    LET y1 == o.y + o.speed * o.dir
    IN  IF y1 >= o.maxY THEN [o EXCEPT !.y = o.maxY]
        ELSE IF y1 <= o.minY THEN [o EXCEPT !.y = o.minY, !.dir = 1]
        ELSE [o EXCEPT !.y = y1]

\* mutant: the lower bound clamps the position but does not turn the obstacle
update_noTurnAtMin(o) ==
    LET y1 == o.y + o.speed * o.dir
    IN  IF y1 >= o.maxY THEN [o EXCEPT !.y = o.maxY, !.dir = -1]
        ELSE IF y1 <= o.minY THEN [o EXCEPT !.y = o.minY]
        ELSE [o EXCEPT !.y = y1]

update(o) ==
    LET y1 == o.y + o.speed * o.dir
    IN  IF y1 >= o.maxY THEN [o EXCEPT !.y = o.maxY, !.dir = -1]
        ELSE IF y1 <= o.minY THEN [o EXCEPT !.y = o.minY, !.dir = 1]
        ELSE [o EXCEPT !.y = y1]

\* mutant: the position is restored but the direction is left as it was
reset_keepDir(o) == [o EXCEPT !.y = Px(o.row * o.ts) + 5 * o.ts]

reset(o) == [o EXCEPT !.y = Px(o.row * o.ts) + 5 * o.ts, !.dir = 1]

\* mutant: the rectangle is the one computed at construction (a cached value)
bounds_cached(o) ==
    [left   |-> o.x - o.w \div 2,
     right  |-> o.x + o.w \div 2,
     top    |-> (Px(o.row * o.ts) + 5 * o.ts) - o.h \div 2,
     bottom |-> (Px(o.row * o.ts) + 5 * o.ts) + o.h \div 2]

\* w/2 = h/2 = 4*ts tenths
bounds(o) ==
    [left   |-> o.x - o.w \div 2,
     right  |-> o.x + o.w \div 2,
     top    |-> o.y - o.h \div 2,
     bottom |-> o.y + o.h \div 2]

----------------------------------------------------------------------------
(* Level *)

\* size helpers on a grid (this.grid)
gridRows(g) == Len(g)
gridCols(g) == Len(g[1])

\* this.grid[r][c], 0-based
cell(g, r, c) == g[r + 1][c + 1]

\* this.grid[r][c] = v
setCellOf(g, r, c, v) == [g EXCEPT ![r + 1][c + 1] = v]

\* while (minRow - 1 >= 0 && this.grid[minRow - 1][c] !== 1) minRow--
RECURSIVE scanUp(_, _, _)
scanUp(g, minRow, c) ==
    IF minRow - 1 >= 0 /\ cell(g, minRow - 1, c) # Wall
    THEN scanUp(g, minRow - 1, c)
    ELSE minRow

\* mutant: the scan stops at the first cell that is not floor
RECURSIVE scanDown_floorOnly(_, _, _)
scanDown_floorOnly(g, maxRow, c) ==
    IF maxRow + 1 < gridRows(g) /\ cell(g, maxRow + 1, c) = Floor
    THEN scanDown_floorOnly(g, maxRow + 1, c)
    ELSE maxRow

\* while (maxRow + 1 < this.rows() && this.grid[maxRow + 1][c] !== 1) maxRow++
RECURSIVE scanDown(_, _, _)
scanDown(g, maxRow, c) ==
    IF maxRow + 1 < gridRows(g) /\ cell(g, maxRow + 1, c) # Wall
    THEN scanDown(g, maxRow + 1, c)
    ELSE maxRow

\* mutant: a start tile is recorded only while none has been recorded yet
parseStart_firstWins(lv, r, c) ==
    IF cell(lv.grid, r, c) = Start
    THEN [lv EXCEPT !.start = IF lv.start = Null THEN [r |-> r, c |-> c] ELSE lv.start,
                    !.grid = setCellOf(lv.grid, r, c, Floor)]
    ELSE lv

\* mutant: the start tile is recorded but left in the grid
parseStart_keepTile(lv, r, c) ==
    IF cell(lv.grid, r, c) = Start
    THEN [lv EXCEPT !.start = [r |-> r, c |-> c]]
    ELSE lv

\* constructor loop body, first branch: if (v === 2) { ... }
parseStart(lv, r, c) ==
    IF cell(lv.grid, r, c) = Start
    THEN [lv EXCEPT !.start = [r |-> r, c |-> c],
                    !.grid = setCellOf(lv.grid, r, c, Floor)]
    ELSE lv

\* mutant: the obstacle is created but its marker is left in the grid
parseMarker_keepTile(lv, v, r, c) ==
    IF v = M
    THEN LET minRow == scanUp(lv.grid, r, c)
             maxRow == scanDown(lv.grid, r, c)
         IN  [lv EXCEPT !.obstacles =
                            Append(lv.obstacles, MovingObstacle(c, r, minRow, maxRow, lv.ts))]
    ELSE lv

\* constructor loop body, second branch: if (v === "M") { ... }
\* v was read before the first branch ran
parseMarker(lv, v, r, c) ==
    IF v = M
    THEN LET minRow == scanUp(lv.grid, r, c)
             maxRow == scanDown(lv.grid, r, c)
         IN  [lv EXCEPT !.obstacles =
                            Append(lv.obstacles, MovingObstacle(c, r, minRow, maxRow, lv.ts)),
                        !.grid = setCellOf(lv.grid, r, c, Floor)]
    ELSE lv

\* the nested for loops of the constructor, from cell number k (row-major) on
RECURSIVE parseFrom(_, _)
parseFrom(lv, k) ==
    IF k >= gridRows(lv.grid) * gridCols(lv.grid) THEN lv
    ELSE LET r == k \div gridCols(lv.grid)
             c == k % gridCols(lv.grid)
             v == cell(lv.grid, r, c)
         IN  parseFrom(parseMarker(parseStart(lv, r, c), v, r, c), k + 1)

\* new Level(grid, tileSize)
NewLevel(grid, tileSize) ==
    parseFrom([grid |-> grid, ts |-> tileSize, obstacles |-> <<>>, start |-> Null], 0)

rows(level) == gridRows(level.grid)
cols(level) == gridCols(level.grid)
pixelWidth(level) == Px(cols(level) * level.ts)
pixelHeight(level) == Px(rows(level) * level.ts)

inBounds(level, r, c) == r >= 0 /\ c >= 0 /\ r < rows(level) /\ c < cols(level)
tileAt(level, r, c) == cell(level.grid, r, c)
isWall(level, r, c) == tileAt(level, r, c) = Wall
isGoal(level, r, c) == tileAt(level, r, c) = Goal

updateObstacles(level) ==
    [level EXCEPT !.obstacles = [i \in DOMAIN level.obstacles |-> update(level.obstacles[i])]]

\* mutant: resetting rebuilds the obstacle list from nothing
resetObstacles_clear(level) == [level EXCEPT !.obstacles = <<>>]

resetObstacles(level) ==
    [level EXCEPT !.obstacles = [i \in DOMAIN level.obstacles |-> reset(level.obstacles[i])]]

\* mutant: strict comparisons turned into non-strict ones (touching edges miss)
separated_nonStrict(playerRect, b) ==
    \/ playerRect.right <= b.left
    \/ playerRect.left >= b.right
    \/ playerRect.bottom <= b.top
    \/ playerRect.top >= b.bottom

\* the rejection test inside checkObstacleCollision
separated(playerRect, b) ==
    \/ playerRect.right < b.left
    \/ playerRect.left > b.right
    \/ playerRect.bottom < b.top
    \/ playerRect.top > b.bottom

\* for (let o of this.obstacles) { if (!separated) return true; } return false;
RECURSIVE collisionFrom(_, _, _)
collisionFrom(obstacles, playerRect, i) ==
    IF i > Len(obstacles) THEN FALSE
    ELSE IF ~separated(playerRect, bounds(obstacles[i])) THEN TRUE
    ELSE collisionFrom(obstacles, playerRect, i + 1)

checkObstacleCollision(level, playerRect) == collisionFrom(level.obstacles, playerRect, 1)

----------------------------------------------------------------------------
(* Player (Player.js): the part of its contract that sketch.js relies on *)

NewPlayer(ts) == [ts |-> ts, r |-> 0, c |-> 0]

setCell(p, r, c) == [p EXCEPT !.r = r, !.c = c]

\* pixel centre of the player's cell
pixelX(p) == Px(p.c * p.ts) + 5 * p.ts
pixelY(p) == Px(p.r * p.ts) + 5 * p.ts

\* atomic check-and-commit against the level's bounds and wall query
tryMove(p, level, dr, dc) ==
    LET nr == p.r + dr
        nc == p.c + dc
    IN  IF ~inBounds(level, nr, nc) THEN [moved |-> FALSE, player |-> p]
        ELSE IF isWall(level, nr, nc) THEN [moved |-> FALSE, player |-> p]
        ELSE [moved |-> TRUE, player |-> setCell(p, nr, nc)]

----------------------------------------------------------------------------
(* sketch.js *)

\* raw level entries as they come out of levels.json
\* (hasGrid: whether the entry has a truthy `grid` property)
ArrayEntry(g) == [type |-> "array", hasGrid |-> FALSE, grid |-> g]
ObjectEntry(g) == [type |-> "object", hasGrid |-> TRUE, grid |-> g]
EmptyObject == [type |-> "object", hasGrid |-> FALSE, grid |-> <<>>]
NullEntry == [type |-> "null", hasGrid |-> FALSE, grid |-> <<>>]

\* grid.map((row) => row.slice())
copyGrid(grid) == [i \in 1..Len(grid) |-> [j \in 1..Len(grid[i]) |-> grid[i][j]]]

\* mutant: only objects without a grid get the fallback level; null is treated as a
\* legacy grid with nothing in it
buildLevel_nullAsGrid(levelEntry) ==
    IF levelEntry.type = "array" THEN NewLevel(copyGrid(levelEntry.grid), TS)
    ELSE IF levelEntry.type # "null" /\ levelEntry.hasGrid
         THEN NewLevel(copyGrid(levelEntry.grid), TS)
    ELSE IF levelEntry.type = "null" THEN NewLevel(<<<<Floor>>>>, TS)
    ELSE NewLevel(<<<<Wall, Wall>>, <<Wall, Wall>>>>, TS)

\* the callback of levelsData.levels.map in setup()
buildLevel(levelEntry) ==
    IF levelEntry.type = "array" THEN NewLevel(copyGrid(levelEntry.grid), TS)
    ELSE IF levelEntry.type # "null" /\ levelEntry.hasGrid
         THEN NewLevel(copyGrid(levelEntry.grid), TS)
    ELSE NewLevel(<<<<Wall, Wall>>, <<Wall, Wall>>>>, TS)

\* The game state handed from one sketch.js function to the next:
\* [levels, li, player, canvas].

\* mutant: the player is repositioned but the obstacles are not reset
loadLevel_noReset(g, idx) ==
    LET level == g.levels[idx + 1]
    IN  [g EXCEPT !.li = idx,
                  !.player = IF level.start # Null
                             THEN setCell(g.player, level.start.r, level.start.c)
                             ELSE setCell(g.player, 1, 1),
                  !.canvas = [w |-> pixelWidth(level), h |-> pixelHeight(level)]]

loadLevel(g, idx) ==
    LET level == g.levels[idx + 1]
    IN  [g EXCEPT !.li = idx,
                  !.player = IF level.start # Null
                             THEN setCell(g.player, level.start.r, level.start.c)
                             ELSE setCell(g.player, 1, 1),
                  !.canvas = [w |-> pixelWidth(level), h |-> pixelHeight(level)],
                  !.levels[idx + 1] = resetObstacles(level)]

nextLevel(g) == loadLevel(g, (g.li + 1) % Len(g.levels))

\* the player's AABB built in draw(): pw = ph = 0.6 * ts, so pw/2 = 3*ts tenths
playerRectOf(p) ==
    LET px == pixelX(p)
        py == pixelY(p)
        pw == 6 * p.ts
        ph == pw
    IN  [left   |-> px - pw \div 2,
         top    |-> py - ph \div 2,
         right  |-> px + pw \div 2,
         bottom |-> py + ph \div 2]

\* mutant: a collision restarts the game from the first level
draw_restartFirst(g) ==
    LET g1 == [g EXCEPT !.levels[g.li + 1] = updateObstacles(g.levels[g.li + 1])]
        playerRect == playerRectOf(g1.player)
        c == checkObstacleCollision(g1.levels[g1.li + 1], playerRect)
    IN  IF c THEN [g |-> loadLevel(g1, 0), rect |-> playerRect, hit |-> c, hud |-> FALSE]
        ELSE [g |-> g1, rect |-> playerRect, hit |-> c, hud |-> TRUE]

\* mutant: a tick advances the obstacles of every level
draw_updateAll(g) ==
    LET g1 == [g EXCEPT !.levels = [i \in DOMAIN g.levels |-> updateObstacles(g.levels[i])]]
        playerRect == playerRectOf(g1.player)
        c == checkObstacleCollision(g1.levels[g1.li + 1], playerRect)
    IN  IF c THEN [g |-> loadLevel(g1, g1.li), rect |-> playerRect, hit |-> c, hud |-> FALSE]
        ELSE [g |-> g1, rect |-> playerRect, hit |-> c, hud |-> TRUE]

\* draw(): the new game state, the collision query made and whether drawHUD ran
draw(g) ==
    LET g1 == [g EXCEPT !.levels[g.li + 1] = updateObstacles(g.levels[g.li + 1])]
        playerRect == playerRectOf(g1.player)
        c == checkObstacleCollision(g1.levels[g1.li + 1], playerRect)
    IN  IF c THEN [g |-> loadLevel(g1, g1.li), rect |-> playerRect, hit |-> c, hud |-> FALSE]
        ELSE [g |-> g1, rect |-> playerRect, hit |-> c, hud |-> TRUE]

\* key events: the arrow keys by keyCode, the others by key
Keys == {"ArrowLeft", "D", "w", "ArrowDown", "x"}

\* the if / else-if chain of keyPressed(): [dr, dc], or Null for "not a movement key"
keyDir(k) ==
    IF k \in {"ArrowLeft", "a", "A"} THEN [dr |-> 0, dc |-> -1]
    ELSE IF k \in {"ArrowRight", "d", "D"} THEN [dr |-> 0, dc |-> 1]
    ELSE IF k \in {"ArrowUp", "w", "W"} THEN [dr |-> -1, dc |-> 0]
    ELSE IF k \in {"ArrowDown", "s", "S"} THEN [dr |-> 1, dc |-> 0]
    ELSE Null

keyPressed(g, k) ==
    LET d == keyDir(k)
    IN  IF d = Null THEN g
        ELSE LET m == tryMove(g.player, g.levels[g.li + 1], d.dr, d.dc)
                 g1 == [g EXCEPT !.player = m.player]
             IN  IF m.moved /\ isGoal(g1.levels[g1.li + 1], g1.player.r, g1.player.c)
                 THEN nextLevel(g1)
                 ELSE g1

\* setup(): build the levels, create the player, load level 0
setup(data) ==
    loadLevel([levels |-> [i \in 1..Len(data) |-> buildLevel(data[i])],
               li |-> 0,
               player |-> NewPlayer(TS),
               canvas |-> Null],
              0)

game == [levels |-> levels, li |-> li, player |-> player, canvas |-> canvas]

\* Arrays as objects.  mem[ref] is the content of one row array; a grid (an array of
\* rows) is the sequence of the references of its rows.  raw[i] is the grid of entry
\* i of the level file (no rows when the entry has none), arg[i] the grid handed to
\* the i-th Level constructor, own[i] the grid that Level keeps as this.grid.
EmptyHeap == [mem |-> <<>>, raw |-> <<>>, arg |-> <<>>, own |-> <<>>]

\* the values a grid holds
deref(mem, g) == [r \in DOMAIN g |-> mem[g[r]]]

\* new row arrays with the given contents, and the grid made of them
alloc(mem, contents) ==
    [mem |-> mem \o contents,
     grid |-> [r \in DOMAIN contents |-> Len(mem) + r]]

\* mutant: the constructor keeps the caller's array
sliceRows_alias(mem, g) == [mem |-> mem, grid |-> g]

\* grid.map((r) => r.slice()): a new outer array of new row arrays
sliceRows(mem, g) == alloc(mem, deref(mem, g))

\* copyGrid(grid) on array objects
copyGridRefs(mem, g) == alloc(mem, copyGrid(deref(mem, g)))

\* new Level(grid, tileSize) on array objects: this.grid is the sliced copy, and every
\* this.grid[r][c] = 0 of the parse is a write into a row array of this.grid, which
\* leaves those rows holding the normalized rows of the level
constructOn(mem, g, tileSize) ==
    LET c == sliceRows(mem, g)
        level == NewLevel(deref(c.mem, c.grid), tileSize)
        written == {c.grid[r] : r \in DOMAIN c.grid}
    IN  [mem |-> [ref \in DOMAIN c.mem |->
                     IF ref \in written
                     THEN level.grid[CHOOSE r \in DOMAIN c.grid : c.grid[r] = ref]
                     ELSE c.mem[ref]],
         own |-> c.grid,
         level |-> level]

\* loadJSON: every entry's grid is an array of row arrays of its own
RECURSIVE loadOn(_, _, _)
loadOn(h, data, i) ==
    IF i > Len(data) THEN h
    ELSE LET a == alloc(h.mem, data[i].grid)
         IN  loadOn([h EXCEPT !.mem = a.mem, !.raw = Append(@, a.grid)], data, i + 1)

\* the levels.map of setup() on array objects, entry by entry
RECURSIVE buildOn(_, _, _)
buildOn(h, data, i) ==
    IF i > Len(data) THEN h
    ELSE LET levelEntry == data[i]
             a == IF levelEntry.type = "array" THEN copyGridRefs(h.mem, h.raw[i])
                  ELSE IF levelEntry.type = "object" /\ levelEntry.hasGrid
                       THEN copyGridRefs(h.mem, h.raw[i])
                  ELSE alloc(h.mem, <<<<1, 1>>, <<1, 1>>>>)
             k == constructOn(a.mem, a.grid, TS)
         IN  buildOn([mem |-> k.mem,
                      raw |-> h.raw,
                      arg |-> Append(h.arg, a.grid),
                      own |-> Append(h.own, k.own)],
                     data, i + 1)

----------------------------------------------------------------------------
(* Inputs *)

\* number of level entries in a level file
MaxLevels == 2

\* number of cells of the grids handed to the Level constructor
MaxCells == 5

\* longest free run of a patrol column
MaxRun == 2

\* a legacy entry: the grid itself; start (1,1), goal (1,2), no obstacle
GridPlain ==
    << <<1, 1, 1, 1>>,
       <<1, 2, 3, 1>>,
       <<1, 1, 1, 1>> >>

\* two obstacles patrolling rows 1..2 of columns 2 and 3; the goal lies in a patrol column
GridPatrol ==
    << <<1, 1, 1, 1, 1>>,
       <<1, 2, M, 0, 1>>,
       <<1, 0, 3, M, 1>>,
       <<1, 1, 1, 1, 1>> >>

\* no start tile: the player spawns at the fallback cell, where an obstacle spawns too
\* (walled in above and below: minRow = maxRow)
GridNoStart ==
    << <<1, 1, 1, 1>>,
       <<1, M, 0, 1>>,
       <<1, 1, 3, 1>>,
       <<1, 1, 1, 1>> >>

\* the scenario grids of the specification
GridScenario3 ==
    << <<1, 1, 1>>,
       <<1, 2, 1>>,
       <<1, 3, 1>> >>

GridScenario5 ==
    << <<1, 1, 1, 1, 1>>,
       <<1, 0, 0, 0, 1>>,
       <<1, 0, M, 0, 1>>,
       <<1, 0, 0, 0, 1>>,
       <<1, 1, 1, 1, 1>> >>

\* a single row without a start tile: the fallback cell (1,1) lies outside the grid
GridOneRow == << <<0, 3>> >>

LevelEntries ==
    {ArrayEntry(GridPlain), ObjectEntry(GridPatrol), ArrayEntry(GridNoStart),
     ArrayEntry(GridOneRow), EmptyObject, NullEntry}

\* the level files: 1..MaxLevels different entries
LevelFiles ==
    UNION {{f \in [1..n -> LevelEntries] : \A i, j \in 1..n : f[i] = f[j] => i = j} :
           n \in 1..MaxLevels}

\* every rectangular grid of at most MaxCells cells, and the grids above with markers
ParseGrids ==
    {GridScenario3, GridScenario5, GridPatrol}
    \cup UNION {[1..d[1] -> [1..d[2] -> Tiles]] :
                d \in {e \in (1..MaxCells) \X (1..MaxCells) : e[1] * e[2] <= MaxCells}}

\* a patrol column: a wall, n free cells with the marker on the m-th (none for m = 0),
\* a wall
Column(n, m) ==
    [i \in 1..(n + 2) |-> IF i = 1 \/ i = n + 2 THEN <<Wall>>
                          ELSE IF m > 0 /\ i = m + 1 THEN <<M>> ELSE <<Floor>>]

\* two obstacles with different ranges: rows 1..3 of column 0, rows 1..2 of column 1
GridTwoRanges ==
    << <<1, 1>>,
       <<M, M>>,
       <<0, 0>>,
       <<0, 1>>,
       <<1, 1>> >>

UnitGrids ==
    {GridTwoRanges}
    \cup {Column(p[1], p[2]) : p \in {q \in (1..MaxRun) \X (0..MaxRun) : q[2] <= q[1]}}

\* tile sizes of the levels exercised on their own
TileSizes == {10, TS}

\* intervals along one axis around tile n: the player's extent in the tile, extents
\* that end exactly on / one unit short of the near edge of an obstacle centred in the
\* tile, and extents that begin exactly on / one unit past its far edge
Spans(n, ts) ==
    LET o == Px(n * ts)
    IN  {<<o + 2 * ts, o + 8 * ts>>,
         <<o - 5 * ts, o + ts>>,
         <<o - 5 * ts, o + ts - 1>>,
         <<o + 9 * ts, o + 15 * ts>>,
         <<o + 9 * ts + 1, o + 15 * ts>>}

\* the rectangles handed to checkObstacleCollision on a level of its own: around the
\* tiles where its obstacles spawn (around tile (1,0) when it has none)
Rects(level) ==
    LET cs == IF level.obstacles = <<>> THEN {0}
              ELSE {level.obstacles[i].col : i \in DOMAIN level.obstacles}
        rs == IF level.obstacles = <<>> THEN {1}
              ELSE {level.obstacles[i].row : i \in DOMAIN level.obstacles}
    IN  {[left |-> h[1], right |-> h[2], top |-> v[1], bottom |-> v[2]] :
            h \in UNION {Spans(c, level.ts) : c \in cs},
            v \in UNION {Spans(r, level.ts) : r \in rs}}

----------------------------------------------------------------------------
(* The game: preload, setup, then draw ticks and key events in any order *)

Init ==
    /\ levelsData \in LevelFiles
    /\ heap = loadOn(EmptyHeap, levelsData, 1)
    /\ levels = <<>>
    /\ li = 0
    /\ player = Null
    /\ canvas = Null
    /\ hud = FALSE
    /\ rect = Null
    /\ hit = FALSE
    /\ last = "preload"

Running == last \in {"setup", "draw", "key"}

Setup ==
    /\ last = "preload"
    /\ LET g == setup(levelsData)
       IN  /\ levels' = g.levels
           /\ li' = g.li
           /\ player' = g.player
           /\ canvas' = g.canvas
    /\ heap' = buildOn(heap, levelsData, 1)
    /\ last' = "setup"
    /\ UNCHANGED <<levelsData, hud, rect, hit>>

Draw ==
    /\ Running
    /\ LET d == draw(game)
       IN  /\ levels' = d.g.levels
           /\ li' = d.g.li
           /\ player' = d.g.player
           /\ canvas' = d.g.canvas
           /\ hud' = d.hud
           /\ rect' = d.rect
           /\ hit' = d.hit
    /\ last' = "draw"
    /\ UNCHANGED <<levelsData, heap>>

KeyPressed(k) ==
    /\ Running
    /\ LET g == keyPressed(game, k)
       IN  /\ levels' = g.levels
           /\ li' = g.li
           /\ player' = g.player
           /\ canvas' = g.canvas
    /\ last' = "key"
    /\ UNCHANGED <<levelsData, hud, rect, hit, heap>>

Next ==
    \/ Setup
    \/ Draw
    \/ \E k \in Keys : KeyPressed(k)

Spec == Init /\ [][Next]_vars

----------------------------------------------------------------------------
(* Level construction alone: one level file entry per grid *)

InitParse ==
    /\ levelsData \in {<<ArrayEntry(g)>> : g \in ParseGrids}
    /\ heap = loadOn(EmptyHeap, levelsData, 1)
    /\ levels = <<>>
    /\ li = 0
    /\ player = Null
    /\ canvas = Null
    /\ hud = FALSE
    /\ rect = Null
    /\ hit = FALSE
    /\ last = "preload"

SpecParse == InitParse /\ [][Setup]_vars

----------------------------------------------------------------------------
(* One Level on its own: its obstacle methods called in any order *)

InitUnit ==
    /\ levelsData = <<>>
    /\ \E g \in UnitGrids, ts \in TileSizes :
           LET a == alloc(<<>>, g)
               k == constructOn(a.mem, a.grid, ts)
           IN  /\ levels = <<k.level>>
               /\ heap = [mem |-> k.mem, raw |-> <<>>, arg |-> <<a.grid>>, own |-> <<k.own>>]
    /\ li = 0
    /\ player = Null
    /\ canvas = Null
    /\ hud = FALSE
    /\ rect = Null
    /\ hit = FALSE
    /\ last = "new"

UpdateObstacles ==
    /\ levels' = [levels EXCEPT ![1] = updateObstacles(levels[1])]
    /\ last' = "update"
    /\ UNCHANGED <<levelsData, li, player, canvas, hud, rect, hit, heap>>

ResetObstacles ==
    /\ levels' = [levels EXCEPT ![1] = resetObstacles(levels[1])]
    /\ last' = "reset"
    /\ UNCHANGED <<levelsData, li, player, canvas, hud, rect, hit, heap>>

CheckObstacleCollision(playerRect) ==
    /\ rect' = playerRect
    /\ hit' = checkObstacleCollision(levels[1], playerRect)
    /\ last' = "check"
    /\ UNCHANGED <<levelsData, levels, li, player, canvas, hud, heap>>

NextUnit ==
    \/ UpdateObstacles
    \/ ResetObstacles
    \/ \E playerRect \in Rects(levels[1]) : CheckObstacleCollision(playerRect)

SpecUnit == InitUnit /\ [][NextUnit]_vars

----------------------------------------------------------------------------
(* One Level whose obstacles are ticked for ever: draw() runs once per frame and
   calls updateObstacles() first, so an update that can move an obstacle is
   eventually made; resets may happen at any time *)

NextLive ==
    \/ UpdateObstacles
    \/ ResetObstacles

SpecLive == InitUnit /\ [][NextLive]_vars /\ WF_vars(UpdateObstacles)

----------------------------------------------------------------------------
(* Properties of one Level on its own (SpecUnit) *)

\* pixel centre of tile n along an axis, for tile size ts
Centre(n, ts) == Px(n * ts) + 5 * ts

\* C1: every obstacle's vertical centre y stays within
\* [minRow*ts + ts/2, maxRow*ts + ts/2] under any sequence of update() and reset()
\* calls, hence strictly between the centres of any wall rows rTop < row < rBot of its
\* column.
C1_ObstacleStaysInRange ==
    \A i \in DOMAIN levels : \A j \in DOMAIN levels[i].obstacles :
        LET lv == levels[i]
            o == lv.obstacles[j]
        IN  /\ Centre(o.minRow, lv.ts) <= o.y
            /\ o.y <= Centre(o.maxRow, lv.ts)
            /\ \A rTop, rBot \in 0..(rows(lv) - 1) :
                   (/\ rTop < o.row
                    /\ o.row < rBot
                    /\ isWall(lv, rTop, o.col)
                    /\ isWall(lv, rBot, o.col))
                   => (Centre(rTop, lv.ts) < o.y /\ o.y < Centre(rBot, lv.ts))

\* C1 witness: an update() has just clamped a travelling obstacle at maxY and turned it
C1_Witness ==
    /\ last = "update"
    /\ \E i \in DOMAIN levels : \E j \in DOMAIN levels[i].obstacles :
           LET o == levels[i].obstacles[j]
           IN  /\ o.minRow < o.maxRow
               /\ o.y = Centre(o.maxRow, o.ts)
               /\ o.dir = -1

\* bounds() of an obstacle right after its construction at (row, col)
SpawnBounds(o) ==
    [left   |-> Px(o.col * o.ts) + o.ts,
     right  |-> Px(o.col * o.ts) + 9 * o.ts,
     top    |-> Px(o.row * o.ts) + o.ts,
     bottom |-> Px(o.row * o.ts) + 9 * o.ts]

\* spawn state: bounds() as constructed, moving down
InSpawnState(o) == bounds(o) = SpawnBounds(o) /\ o.dir = 1

\* C4: right after resetObstacles(), whatever updates came before, every obstacle has
\* its post-construction bounds() and direction +1, and another resetObstacles()
\* would change nothing.
C4_ResetRestoresSpawn ==
    last = "reset" =>
        /\ \A j \in DOMAIN levels[1].obstacles : InSpawnState(levels[1].obstacles[j])
        /\ resetObstacles(levels[1]) = levels[1]

\* C4 witness: a reset has acted on a level with a travelling obstacle, after a
\* collision query had reported an overlap away from the spawn position
C4_Witness ==
    /\ last = "reset"
    /\ hit
    /\ \E j \in DOMAIN levels[1].obstacles :
           levels[1].obstacles[j].minRow < levels[1].obstacles[j].maxRow
    /\ \A j \in DOMAIN levels[1].obstacles :
           separated(rect, SpawnBounds(levels[1].obstacles[j]))

\* two closed intervals [a1, a2] and [b1, b2] share a point
Meet(a1, a2, b1, b2) ==
    (IF a1 >= b1 THEN a1 ELSE b1) <= (IF a2 <= b2 THEN a2 ELSE b2)

\* rectangle q and obstacle o overlap on both axes (o's extent is 0.8*ts around x, y)
Overlaps(q, o) ==
    /\ Meet(q.left, q.right, o.x - 4 * o.ts, o.x + 4 * o.ts)
    /\ Meet(q.top, q.bottom, o.y - 4 * o.ts, o.y + 4 * o.ts)

\* C9: checkObstacleCollision(playerRect) is true exactly when some obstacle's
\* current bounds() overlaps playerRect on both axes, touching edges included;
\* with no obstacles it is false.
C9_CollisionIffOverlap ==
    last = "check" =>
        /\ hit <=> \E j \in DOMAIN levels[1].obstacles : Overlaps(rect, levels[1].obstacles[j])
        /\ levels[1].obstacles = <<>> => ~hit

\* C9 witness: a collision reported for a rectangle whose bottom edge lies exactly on
\* the top edge of an obstacle that has been turned round by an update()
C9_Witness ==
    /\ last = "check"
    /\ hit
    /\ \E j \in DOMAIN levels[1].obstacles :
           LET o == levels[1].obstacles[j]
           IN  /\ rect.bottom = o.y - 4 * o.ts
               /\ o.dir = -1
               /\ Overlaps(rect, o)

----------------------------------------------------------------------------
(* Properties of Level construction (SpecParse): the level built from the grid of   *)
(* the only entry of the level file                                                 *)

Built == last # "preload"

\* the grid handed to the constructor, and the Level made from it
InGrid == levelsData[1].grid
OutLevel == levels[1]

\* the cells of a grid, as <<r, c>> with 0-based indices
Cells(g) == (0..(gridRows(g) - 1)) \X (0..(gridCols(g) - 1))

\* position of a cell in row-major scan order
Rank(g, p) == p[1] * gridCols(g) + p[2]

\* the cells of g holding tile t
CellsWith(g, t) == {p \in Cells(g) : cell(g, p[1], p[2]) = t}

\* the cell of the non-empty set S scanned first / last
FirstOf(g, S) == CHOOSE p \in S : \A q \in S : Rank(g, p) <= Rank(g, q)
LastOf(g, S) == CHOOSE p \in S : \A q \in S : Rank(g, p) >= Rank(g, q)

AsStart(p) == [r |-> p[1], c |-> p[2]]

\* C5 (as stated): start is the first Start cell in row-major order, or absent
C5_FirstStartWins ==
    Built =>
        OutLevel.start = IF CellsWith(InGrid, Start) = {} THEN Null
                         ELSE AsStart(FirstOf(InGrid, CellsWith(InGrid, Start)))

\* C5 (amended): the Level's start field records the location of the LAST Start (2)
\* cell in row-major scan order, or is absent (null) if the grid has no Start cell;
\* with several Start cells the last one scanned wins.
C5_LastStartWins ==
    Built =>
        OutLevel.start = IF CellsWith(InGrid, Start) = {} THEN Null
                         ELSE AsStart(LastOf(InGrid, CellsWith(InGrid, Start)))

\* C5 witness: a level built from a grid with Start cells in two different rows and
\* two different columns
C5_Witness ==
    /\ Built
    /\ \E p, q \in CellsWith(InGrid, Start) : p[1] < q[1] /\ p[2] > q[2]
    /\ OutLevel.start # Null

\* C6: with exactly one Start cell (r0, c0) the level has start = {r0, c0} and that
\* cell is floor, so isWall and isGoal are false there; the 3x3 scenario grid gives
\* start {1,1}, isGoal(2,1) and isWall(0,0).
C6_SingleStart ==
    Built =>
        /\ \A p \in Cells(InGrid) :
               CellsWith(InGrid, Start) = {p} =>
                   /\ OutLevel.start = AsStart(p)
                   /\ tileAt(OutLevel, p[1], p[2]) = Floor
                   /\ ~isWall(OutLevel, p[1], p[2])
                   /\ ~isGoal(OutLevel, p[1], p[2])
        /\ InGrid = GridScenario3 =>
               /\ OutLevel.start = [r |-> 1, c |-> 1]
               /\ isGoal(OutLevel, 2, 1)
               /\ isWall(OutLevel, 0, 0)

\* C6 witness: the 3x3 scenario level has been built
C6_Witness ==
    /\ Built
    /\ InGrid = GridScenario3
    /\ OutLevel.start = [r |-> 1, c |-> 1]
    /\ rows(OutLevel) = 3
    /\ cols(OutLevel) = 3

\* the grid a level entry is built from (the 2x2 wall block for a malformed entry)
SourceGrid(e) ==
    IF e.type = "array" \/ (e.type = "object" /\ e.hasGrid) THEN e.grid
    ELSE <<<<Wall, Wall>>, <<Wall, Wall>>>>

\* C7: every constructed grid has floor wherever its input had Start or "M", and the
\* input's value everywhere else; it holds no Start and no "M".
C7_GridNormalized ==
    Built =>
        \A i \in DOMAIN levels :
            LET g == SourceGrid(levelsData[i])
            IN  /\ rows(levels[i]) = gridRows(g)
                /\ cols(levels[i]) = gridCols(g)
                /\ \A p \in Cells(g) :
                       /\ tileAt(levels[i], p[1], p[2]) \notin {Start, M}
                       /\ tileAt(levels[i], p[1], p[2]) =
                              IF cell(g, p[1], p[2]) \in {Start, M} THEN Floor
                              ELSE cell(g, p[1], p[2])

\* C7 witness: a level built from a grid holding a Start, an "M", a wall and a goal
C7_Witness ==
    /\ Built
    /\ \A t \in {Start, M, Wall, Goal} : CellsWith(InGrid, t) # {}

\* rows a..b of column c of the input grid are all in bounds and not walls
FreeRun(g, a, b, c) ==
    /\ 0 <= a
    /\ b < gridRows(g)
    /\ \A k \in a..b : cell(g, k, c) # Wall

\* the markers of g in row-major order, as a sequence of cells
RECURSIVE InOrder(_, _)
InOrder(g, S) ==
    IF S = {} THEN <<>>
    ELSE LET p == FirstOf(g, S) IN <<p>> \o InOrder(g, S \ {p})

\* C8: one obstacle per "M", in row-major order, at the marker's column and row, with
\* minRow/maxRow the ends of the maximal run of in-bounds non-wall cells of its column
\* around the marker (only walls and grid edges end it); the 5x5 scenario grid gives
\* one obstacle with col 2, row 2, minRow 1, maxRow 3.
C8_ObstaclePerMarker ==
    Built =>
        LET ms == InOrder(InGrid, CellsWith(InGrid, M))
            os == OutLevel.obstacles
        IN  /\ Len(os) = Len(ms)
            /\ \A j \in DOMAIN os :
                   /\ os[j].row = ms[j][1]
                   /\ os[j].col = ms[j][2]
                   /\ os[j].minRow <= os[j].row
                   /\ os[j].row <= os[j].maxRow
                   /\ FreeRun(InGrid, os[j].minRow, os[j].maxRow, os[j].col)
                   /\ ~FreeRun(InGrid, os[j].minRow - 1, os[j].maxRow, os[j].col)
                   /\ ~FreeRun(InGrid, os[j].minRow, os[j].maxRow + 1, os[j].col)
            /\ InGrid = GridScenario5 =>
                   /\ Len(os) = 1
                   /\ os[1].col = 2 /\ os[1].row = 2
                   /\ os[1].minRow = 1 /\ os[1].maxRow = 3

\* C8 witness: the 5x5 scenario level has been built with its one obstacle
C8_Witness ==
    /\ Built
    /\ InGrid = GridScenario5
    /\ Len(OutLevel.obstacles) = 1
    /\ OutLevel.obstacles[1].maxRow = 3

----------------------------------------------------------------------------
(* Properties of the game loop (Spec) *)

\* the active level
Active == levels[li + 1]

\* the cell loadLevel puts the player on: the start tile, or (1,1) without one
SpawnCell(level) ==
    IF level.start # Null THEN <<level.start.r, level.start.c>> ELSE <<1, 1>>

PlayerCell(p) == <<p.r, p.c>>

\* the player's box on cell t: a 0.6*ts square centred on the cell
BoxAt(t, ts) ==
    [left   |-> Px(t[2] * ts) + 2 * ts,
     top    |-> Px(t[1] * ts) + 2 * ts,
     right  |-> Px(t[2] * ts) + 8 * ts,
     bottom |-> Px(t[1] * ts) + 8 * ts]

\* the box on cell t overlaps an obstacle of the level
Touches(t, level) ==
    \E j \in DOMAIN level.obstacles : Overlaps(BoxAt(t, level.ts), level.obstacles[j])

AllInSpawnState(level) ==
    \A j \in DOMAIN level.obstacles : InSpawnState(level.obstacles[j])

\* the cell key k moves the player to, or the player's own cell when the key is no
\* movement key or the move is blocked
Target(k) ==
    LET d == keyDir(k)
        t == IF d = Null THEN PlayerCell(player) ELSE <<player.r + d.dr, player.c + d.dc>>
    IN  IF inBounds(Active, t[1], t[2]) /\ ~isWall(Active, t[1], t[2]) THEN t
        ELSE PlayerCell(player)

\* key k moves the player onto a goal tile of the active level
EntersGoal(k) ==
    /\ Target(k) # PlayerCell(player)
    /\ isGoal(Active, Target(k)[1], Target(k)[2])

\* C2 (as stated, in its key-event part): touching an obstacle always restarts the
\* current level, so a key event never advances to the next level while the player's
\* box overlaps an obstacle of the level being left.  Stated for the first key event
\* after a tick, from a cell where the player touches nothing: the goal tile it
\* moves the player onto is then not under an obstacle.
C2_NoAdvanceWhileTouching ==
    [][(/\ last = "draw"
        /\ ~Touches(PlayerCell(player), Active)
        /\ li' # li) =>
          \A k \in Keys : EntersGoal(k) => ~Touches(Target(k), Active)]_vars

\* C3: a tick advances the active level's obstacles and tests the player's box
\* against the advanced positions; on an overlap the tick ends with the player on
\* the level's start cell (or (1,1) without one), every obstacle of the level in
\* spawn state, the level index unchanged and the HUD skipped.
C3_TickCollisionRestarts ==
    [][last' = "draw" =>
          LET adv == updateObstacles(Active)
          IN  /\ rect' = BoxAt(PlayerCell(player), TS)
              /\ hit' <=> Touches(PlayerCell(player), adv)
              /\ ~hit' => levels'[li + 1] = adv
              /\ hit' => /\ PlayerCell(player') = SpawnCell(Active)
                         /\ AllInSpawnState(levels'[li + 1])
                         /\ li' = li
                         /\ hud' = FALSE]_vars

\* C3 witness: a tick on the second level ended in a restart at its start tile
C3_Witness ==
    /\ last = "draw"
    /\ hit
    /\ ~hud
    /\ li = 1
    /\ Active.start # Null
    /\ PlayerCell(player) = SpawnCell(Active)
    /\ Len(Active.obstacles) = 2

\* what a key event k does to the level index, the player and the levels
KeyOutcome(k, placed) ==
    LET next == (li + 1) % Len(levels)
    IN  IF EntersGoal(k)
        THEN /\ li' = next
             /\ placed
             /\ AllInSpawnState(levels'[next + 1])
             /\ \A i \in DOMAIN levels : i # next + 1 => levels'[i] = levels[i]
        ELSE /\ li' = li
             /\ PlayerCell(player') = Target(k)
             /\ levels' = levels

\* C10 (as stated): the level index stays in 0..levels.length-1 and changes only in a
\* key event that moves the player onto a goal tile; it then becomes the next level
\* (wrapping), the player is placed at that level's start and its obstacles are
\* reset; ticks, blocked moves and other keys leave it alone.
C10_AdvanceOnlyOnGoal ==
    [][Running =>
          /\ li' \in 0..(Len(levels') - 1)
          /\ last' = "draw" => li' = li
          /\ last' = "key" =>
                 \E k \in Keys :
                     KeyOutcome(k, /\ levels[li' + 1].start # Null
                                   /\ player'.r = levels[li' + 1].start.r
                                   /\ player'.c = levels[li' + 1].start.c)]_vars

\* C10 (amended): as stated, except that the player is placed at the next level's
\* start, or at the fallback cell (1,1) when that level has no start tile.
C10_AdvanceOnlyOnGoalOrFallback ==
    [][Running =>
          /\ li' \in 0..(Len(levels') - 1)
          /\ last' = "draw" => li' = li
          /\ last' = "key" =>
                 \E k \in Keys :
                     KeyOutcome(k, PlayerCell(player') = SpawnCell(levels[li' + 1]))]_vars

\* C10 witness: a key event has wrapped from the last level, played for a tick at
\* least, back to level 0
C10_Witness ==
    /\ last = "key"
    /\ li = 0
    /\ Len(levels) = 2
    /\ ~AllInSpawnState(levels[2])
    /\ Len(levels[1].obstacles) = 2
    /\ AllInSpawnState(levels[1])
    /\ PlayerCell(player) = SpawnCell(levels[1])

----------------------------------------------------------------------------
(* Properties of loading, frames and liveness *)

\* a level entry that is neither an array nor an object with a grid
Malformed(e) == ~(e.type = "array" \/ (e.type = "object" /\ e.hasGrid))

\* C11: every malformed level entry becomes a 2x2 level of walls without start and
\* without obstacles, and the other entries of the same file are built from their
\* own grids.
C11_MalformedEntryFallsBack ==
    Built =>
        /\ Len(levels) = Len(levelsData)
        /\ \A i \in DOMAIN levelsData :
               IF Malformed(levelsData[i])
               THEN /\ rows(levels[i]) = 2
                    /\ cols(levels[i]) = 2
                    /\ \A r, c \in 0..1 : isWall(levels[i], r, c)
                    /\ levels[i].start = Null
                    /\ levels[i].obstacles = <<>>
               ELSE LET g == levelsData[i].grid
                    IN  /\ rows(levels[i]) = gridRows(g)
                        /\ cols(levels[i]) = gridCols(g)
                        /\ \A p \in Cells(g) :
                               /\ isWall(levels[i], p[1], p[2]) <=> cell(g, p[1], p[2]) = Wall
                               /\ isGoal(levels[i], p[1], p[2]) <=> cell(g, p[1], p[2]) = Goal
                        /\ Len(levels[i].obstacles) = Cardinality(CellsWith(g, M))
                        /\ (levels[i].start = Null) <=> (CellsWith(g, Start) = {})

\* C11 witness: a file with a null entry and an entry with a grid has been loaded
C11_Witness ==
    /\ Built
    /\ Len(levelsData) = 2
    /\ levelsData[1] = NullEntry
    /\ levelsData[2] = ObjectEntry(GridPatrol)
    /\ rows(levels[1]) = 2
    /\ Len(levels[2].obstacles) = 2

\* what identifies an obstacle: everything but its position y and direction
Identity(o) ==
    [col |-> o.col, row |-> o.row, minRow |-> o.minRow, maxRow |-> o.maxRow,
     ts |-> o.ts, speed |-> o.speed, x |-> o.x, w |-> o.w, h |-> o.h,
     minY |-> o.minY, maxY |-> o.maxY]

\* C12: once the levels are constructed, no operation changes a level's grid, tile
\* size, start or the number and identity of its obstacles; the raw level data stays
\* as it is too.
C12_LevelsFrame ==
    [][Built =>
          /\ levelsData' = levelsData
          /\ DOMAIN levels' = DOMAIN levels
          /\ \A i \in DOMAIN levels :
                 /\ levels'[i].grid = levels[i].grid
                 /\ levels'[i].ts = levels[i].ts
                 /\ levels'[i].start = levels[i].start
                 /\ DOMAIN levels'[i].obstacles = DOMAIN levels[i].obstacles
                 /\ \A j \in DOMAIN levels[i].obstacles :
                        Identity(levels'[i].obstacles[j]) = Identity(levels[i].obstacles[j])]_vars

\* C12 witness: the second level has been restarted by a collision after its
\* obstacles had moved, and the first level was left with its obstacles moved
C12_Witness ==
    /\ last = "draw"
    /\ hit
    /\ li = 1
    /\ Len(levels) = 2
    /\ levels[2].obstacles # <<>>
    /\ ~AllInSpawnState(levels[1])

\* {x - w/2, y - h/2, x + w/2, y + h/2} for the obstacle's current position
CurrentBox(o) ==
    [left   |-> o.x - o.w \div 2,
     top    |-> o.y - o.h \div 2,
     right  |-> o.x + o.w \div 2,
     bottom |-> o.y + o.h \div 2]

\* C13: a checkObstacleCollision call, with any rectangle, leaves every obstacle, the
\* grid, the start and the rest of the state as they were; bounds() is the box around
\* the obstacle's current y, and the query answers for that box.
C13_QueriesArePure ==
    [][last' = "check" =>
          /\ levels' = levels
          /\ <<levelsData', li', player', canvas', hud'>> = <<levelsData, li, player, canvas, hud>>
          /\ heap' = heap
          /\ \A j \in DOMAIN levels[1].obstacles :
                 bounds(levels[1].obstacles[j]) = CurrentBox(levels[1].obstacles[j])
          /\ hit' <=> \E j \in DOMAIN levels[1].obstacles :
                          LET b == CurrentBox(levels[1].obstacles[j])
                          IN  /\ Meet(rect'.left, rect'.right, b.left, b.right)
                              /\ Meet(rect'.top, rect'.bottom, b.top, b.bottom)]_vars

\* C13 witness: a query has hit an obstacle that is on its way down between its spawn
\* position and its lower end
C13_Witness ==
    /\ last = "check"
    /\ hit
    /\ \E j \in DOMAIN levels[1].obstacles :
           LET o == levels[1].obstacles[j]
           IN  /\ o.dir = 1
               /\ o.y > Centre(o.row, o.ts)
               /\ o.y < Centre(o.maxRow, o.ts)
               /\ Overlaps(rect, o)

\* the row arrays of a grid
RowRefs(g) == {g[r] : r \in DOMAIN g}

\* the grid the caller handed to the i-th constructor, and that Level's this.grid
CallerGrid(i) == deref(heap.mem, heap.arg[i])
OwnGrid(i) == deref(heap.mem, heap.own[i])

\* C14: the grids of the raw level data always hold their loaded values; once the
\* levels are built, every grid handed to a Level constructor holds in every cell the
\* value it was given (Start and "M" included), the Level's own grid is the normalized
\* one and shares no row array with the caller's grid or with the raw data.
C14_CallerGridUntouched ==
    /\ Len(heap.raw) = Len(levelsData)
    /\ \A i \in DOMAIN levelsData :
           deref(heap.mem, heap.raw[i]) = levelsData[i].grid
    /\ Built =>
           /\ Len(heap.arg) = Len(levels)
           /\ Len(heap.own) = Len(levels)
           /\ \A i \in DOMAIN levelsData :
                  /\ CallerGrid(i) = SourceGrid(levelsData[i])
                  /\ RowRefs(heap.arg[i]) \cap RowRefs(heap.raw[i]) = {}
                  /\ RowRefs(heap.own[i]) \cap RowRefs(heap.raw[i]) = {}
           /\ \A i \in DOMAIN levels :
                  /\ OwnGrid(i) = levels[i].grid
                  /\ \A p \in Cells(OwnGrid(i)) :
                         /\ cell(OwnGrid(i), p[1], p[2]) \notin {Start, M}
                         /\ cell(OwnGrid(i), p[1], p[2]) =
                                IF cell(CallerGrid(i), p[1], p[2]) \in {Start, M} THEN Floor
                                ELSE cell(CallerGrid(i), p[1], p[2])
                  /\ RowRefs(heap.own[i]) \cap RowRefs(heap.arg[i]) = {}

\* C14 witness: a level was built from a grid in which the caller still finds a Start
\* and an "M", both floor in the Level's own grid
C14_Witness ==
    /\ Built
    /\ heap.arg # <<>>
    /\ \E p, q \in Cells(CallerGrid(1)) :
           /\ cell(CallerGrid(1), p[1], p[2]) = Start
           /\ cell(CallerGrid(1), q[1], q[2]) = M
           /\ cell(OwnGrid(1), p[1], p[2]) = Floor
           /\ cell(OwnGrid(1), q[1], q[2]) = Floor
           /\ cell(deref(heap.mem, heap.raw[1]), p[1], p[2]) = Start

\* C15: an update() takes an obstacle in state (y, dir) to (maxY, -1) if
\* y + speed*dir >= maxY, else to (minY, +1) if y + speed*dir <= minY, else to
\* (y + speed*dir, dir); the direction is always +1 or -1 and changes in an update only
\* when that update clamps; an obstacle with minRow = maxRow never leaves its position.
C15_UpdateRule ==
    [][\A j \in DOMAIN levels[1].obstacles :
           LET o == levels[1].obstacles[j]
               n == levels'[1].obstacles[j]
               lo == Centre(o.minRow, o.ts)
               hi == Centre(o.maxRow, o.ts)
               y1 == o.y + speed * o.dir
           IN  /\ last' = "update" =>
                      /\ <<n.y, n.dir>> = IF y1 >= hi THEN <<hi, -1>>
                                         ELSE IF y1 <= lo THEN <<lo, 1>>
                                         ELSE <<y1, o.dir>>
                      /\ n.dir # o.dir => (n.y \in {lo, hi} /\ (y1 >= hi \/ y1 <= lo))
               /\ o.dir \in {1, -1}
               /\ n.dir \in {1, -1}
               /\ o.minRow = o.maxRow => (o.y = Centre(o.row, o.ts) /\ n.y = o.y)]_vars

\* C15 witness: an update() has just clamped at minY an obstacle that spawned below its
\* upper end, and turned it downwards
C15_Witness ==
    /\ last = "update"
    /\ \E j \in DOMAIN levels[1].obstacles :
           LET o == levels[1].obstacles[j]
           IN  /\ o.minRow < o.row
               /\ o.y = Centre(o.minRow, o.ts)
               /\ o.dir = 1

\* the most obstacles a level exercised on its own has
MaxObstacles == 2

\* obstacle j exists and has more than one row to travel
Travels(j) ==
    /\ j \in DOMAIN levels[1].obstacles
    /\ levels[1].obstacles[j].minRow < levels[1].obstacles[j].maxRow

AtMaxY(j) == levels[1].obstacles[j].y = Centre(levels[1].obstacles[j].maxRow, levels[1].ts)
AtMinY(j) == levels[1].obstacles[j].y = Centre(levels[1].obstacles[j].minRow, levels[1].ts)

\* C16: when ticks keep occurring and there are only finitely many resets, every
\* obstacle with minRow < maxRow is at maxY infinitely often and at minY infinitely
\* often, and each visit to one bound is followed by a visit to the other.
C16_OscillationIsLive ==
    \A j \in 1..MaxObstacles :
        (<>[](last # "reset")) =>
            /\ []<>(Travels(j) => AtMaxY(j))
            /\ []<>(Travels(j) => AtMinY(j))
            /\ (Travels(j) /\ AtMaxY(j)) ~> (Travels(j) /\ AtMinY(j))
            /\ (Travels(j) /\ AtMinY(j)) ~> (Travels(j) /\ AtMaxY(j))

\* C16 witness: an obstacle that spawned at its upper end is back there after an
\* update, heading down again: it has been to maxY and returned
C16_Witness ==
    /\ last = "update"
    /\ \E j \in 1..MaxObstacles :
           /\ Travels(j)
           /\ levels[1].obstacles[j].row = levels[1].obstacles[j].minRow
           /\ AtMinY(j)
           /\ levels[1].obstacles[j].dir = 1

\* the game state after the step
gameAfter == [levels |-> levels', li |-> li', player |-> player', canvas |-> canvas']

\* C17: after setup, after a key event that enters a goal (wrap-around included) and
\* after a tick that detects a collision, every obstacle of the level that is now
\* active is in spawn state; a tick changes no level other than the active one, and
\* without a collision it leaves the active level's obstacles one update() further.
C17_ActiveLevelStartsFresh ==
    [][/\ last' = "setup" => (li' = 0 /\ AllInSpawnState(levels'[1]))
       /\ \A k \in Keys :
              (last' = "key" /\ EntersGoal(k) /\ gameAfter = keyPressed(game, k)) =>
                  /\ li' = (li + 1) % Len(levels)
                  /\ AllInSpawnState(levels'[li' + 1])
       /\ last' = "draw" =>
              /\ li' = li
              /\ hit' => AllInSpawnState(levels'[li + 1])
              /\ ~hit' => \A j \in DOMAIN Active.obstacles :
                              levels'[li + 1].obstacles[j] = update(Active.obstacles[j])
              /\ \A i \in DOMAIN levels : i # li + 1 => levels'[i] = levels[i]]_vars

\* C17 witness: a key event has wrapped around from the second level, whose obstacles
\* stay as the ticks left them, to the first, whose obstacles are in spawn state
C17_Witness ==
    /\ last = "key"
    /\ li = 0
    /\ Len(levels) = 2
    /\ levels[1].obstacles # <<>>
    /\ AllInSpawnState(levels[1])
    /\ \E j \in DOMAIN levels[2].obstacles :
           levels[2].obstacles[j].y > Centre(levels[2].obstacles[j].row, TS)
    /\ PlayerCell(player) = SpawnCell(levels[1])

\* C18 (as stated): at the end of every tick the player's box (a 0.6*ts square centred
\* on the player's cell) overlaps no obstacle of the active level, whatever the levels
\* are, levels without a start tile included.
C18_NoOverlapAfterTick ==
    last = "draw" => ~Touches(PlayerCell(player), Active)

\* the case in which C18 fails: the tick restarted a level without a start tile whose
\* cell (1,1) is where an obstacle spawns
C18_RestartOntoObstacle ==
    /\ last = "draw"
    /\ hit
    /\ Active.start = Null
    /\ PlayerCell(player) = <<1, 1>>
    /\ \E j \in DOMAIN Active.obstacles :
           /\ Active.obstacles[j].row = 1
           /\ Active.obstacles[j].col = 1
           /\ InSpawnState(Active.obstacles[j])
    /\ Touches(PlayerCell(player), Active)

\* everywhere else the statement of C18 holds: a tick that ends with an overlap is a
\* restart onto an obstacle spawning at the fallback cell
C18_OverlapOnlyAtFallbackSpawn ==
    (last = "draw" /\ Touches(PlayerCell(player), Active)) => C18_RestartOntoObstacle

\* the player's cell is inside the active level's grid and is no wall
OnFreeCell ==
    /\ inBounds(Active, player.r, player.c)
    /\ ~isWall(Active, player.r, player.c)

\* C19 (as stated): in every state from setup on, the player's cell is in bounds of the
\* active level and is not a wall tile: after every load (levels without a start tile
\* and the 2x2 all-wall fallback level included), every restart and every move attempt.
C19_PlayerOnFreeCell ==
    Running => OnFreeCell

\* where C19 fails: the active level has no start tile and the player stands on the
\* fallback cell (1,1), which is a wall or lies outside the grid
C19_FallbackOffGrid ==
    /\ Running
    /\ Active.start = Null
    /\ PlayerCell(player) = <<1, 1>>
    /\ ~inBounds(Active, 1, 1)

\* with a start tile in the active level the statement of C19 holds
C19_FreeCellWithStart ==
    (Running /\ Active.start # Null) => OnFreeCell

====
